---- MODULE Spec2Model ----
(***************************************************************************)
(* A model of make-rs (src/src/main.rs): the Makefile parser               *)
(* Makefile::from_str, the recursive executor Target::make, the lookup     *)
(* Makefile::make and the driver main.                                     *)
(*                                                                         *)
(* Text is a sequence of one-character strings, so that the parser's       *)
(* splitting, trimming and comparing of names is computed character by     *)
(* character as the code computes it.                                      *)
(***************************************************************************)
EXTENDS Integers, Sequences, FiniteSets, TLC

VARIABLES
    makefile_src, \* the text of the file Makefile
    args,       \* the target names on the command line
    fs,         \* the paths that exist in the file system
    pc,         \* where main stands: "start", "main", "make" or "done"
    makefile,   \* Makefile.targets, once parsed
    argi,       \* how many requests main has started
    stack,      \* the frames of Target::make, the innermost last
    output,     \* the process::Output captured last
    stdout,     \* the lines printed to standard output
    stderr,     \* the text forwarded to standard error
    executed,   \* the commands run by a shell, each with the error stream
                \* captured from it, in order (history)
    requests,   \* the calls of Makefile::make by main, each with the state
                \* of the file system and of the streams at the call, in
                \* order (history)
    result      \* what main returns, "Running" until it does

vars == <<makefile_src, args, fs, pc, makefile, argi, stack, output, stdout, stderr,
          executed, requests, result>>

(***************************************************************************)
(* Bounds of the model.                                                    *)
(***************************************************************************)
\* header lines of a generated Makefile
MaxTargets == 2
\* target names on the command line
MaxArgs == 2
\* frames of Target::make on the call stack before the process's stack is
\* taken to be exhausted
MaxDepth == 4
\* the number of lines of a text given to the parser alone
MaxLines == 3

(***************************************************************************)
(* Characters and strings (str).                                           *)
(***************************************************************************)
\* char::is_whitespace, on the characters a line can hold
IsWhitespace(c) == c \in {" ", "\t"}

\* the index of the first occurrence of c in s, 0 when there is none
RECURSIVE IndexFrom(_, _, _)
IndexFrom(s, c, i) ==
    IF i > Len(s) THEN 0
    ELSE IF s[i] = c THEN i
    ELSE IndexFrom(s, c, i + 1)

IndexOf(s, c) == IndexFrom(s, c, 1)

\* str::split_once(c): the text before and after the first c
SplitOnce(s, c) ==
    LET i == IndexOf(s, c)
    IN  IF i = 0
        THEN [found |-> FALSE, before |-> s, after |-> <<>>]
        ELSE [found |-> TRUE,
              before |-> SubSeq(s, 1, i - 1),
              after |-> SubSeq(s, i + 1, Len(s))]

\* str::starts_with(c)
StartsWith(s, c) == Len(s) > 0 /\ s[1] = c

RECURSIVE TrimStart(_)
TrimStart(s) ==
    IF s # <<>> /\ IsWhitespace(s[1]) THEN TrimStart(Tail(s)) ELSE s

RECURSIVE TrimEnd(_)
TrimEnd(s) ==
    IF s # <<>> /\ IsWhitespace(s[Len(s)])
    THEN TrimEnd(SubSeq(s, 1, Len(s) - 1))
    ELSE s

\* (a variant of Trim that leaves the blanks in front)
TrimEndOnly(s) == TrimEnd(s)

\* str::trim
Trim(s) == TrimEnd(TrimStart(s))

\* str::lines: split at every "\n"; a final line needs no terminator, and
\* the empty text after the last "\n" is no line
RECURSIVE Lines(_)
Lines(s) ==
    IF s = <<>> THEN <<>>
    ELSE LET p == SplitOnce(s, "\n")
         IN  IF p.found THEN <<p.before>> \o Lines(p.after) ELSE <<s>>

\* the length of the longest prefix of s free of whitespace
RECURSIVE TokenLen(_, _)
TokenLen(s, i) ==
    IF i > Len(s) \/ IsWhitespace(s[i]) THEN i - 1 ELSE TokenLen(s, i + 1)

\* str::split_whitespace: the maximal runs of non-whitespace, in order
RECURSIVE SplitWhitespace(_)
SplitWhitespace(s) ==
    LET t == TrimStart(s)
    IN  IF t = <<>> THEN <<>>
        ELSE LET n == TokenLen(t, 1)
             IN  <<SubSeq(t, 1, n)>> \o SplitWhitespace(SubSeq(t, n + 1, Len(t)))

(***************************************************************************)
(* Makefile::from_str.                                                     *)
(***************************************************************************)
\* the filter of the line iterator: empty lines and comment lines go
KeepLine(line) == ~(line = <<>> \/ StartsWith(Trim(line), "#"))

\* (a variant of StripComment that keeps the whole line)
StripCommentNever(line) == line

\* the map of the line iterator: a line is cut at its first '#'
StripComment(line) ==
    LET p == SplitOnce(line, "#") IN IF p.found THEN p.before ELSE line

RECURSIVE MapStripComment(_)
MapStripComment(ls) ==
    IF ls = <<>> THEN <<>>
    ELSE <<StripComment(Head(ls))>> \o MapStripComment(Tail(ls))

\* the lines the parsing loop iterates over
PreparedLines(data) == MapStripComment(SelectSeq(Lines(data), KeepLine))

\* (a variant of CommandsEnd that takes one command line at most, an `if`
\* for the `while`)
CommandsEndAfterOne(ls, i) ==
    IF i <= Len(ls) /\ StartsWith(ls[i], "\t") THEN i + 1 ELSE i

\* the inner loop: the index of the first line at or after i that does not
\* start with a tab
RECURSIVE CommandsEnd(_, _)
CommandsEnd(ls, i) ==
    IF i <= Len(ls) /\ StartsWith(ls[i], "\t") THEN CommandsEnd(ls, i + 1) ELSE i

\* the name of a header line: the text before the first ':', as written
HeaderName(before) == before

\* the dependency names of a header line
HeaderDeps(after) == SplitWhitespace(after)

\* the first loop: one entry per header line (the two halves of the line as
\* split at its first ':', the name and the dependency names made of them,
\* and the commands), or the error of the first line in header position
\* that holds no ':'
RECURSIVE ParseFrom(_, _, _)
ParseFrom(ls, i, acc) ==
    IF i > Len(ls) THEN [error |-> "None", headers |-> acc]
    ELSE LET p == SplitOnce(ls[i], ":")
             j == CommandsEnd(ls, i + 1)
         IN  IF ~p.found THEN [error |-> "LineIsNotATarget", headers |-> acc]
             ELSE ParseFrom(ls, j,
                      Append(acc,
                          [target |-> p.before,
                           dependencies |-> p.after,
                           name |-> HeaderName(p.before),
                           deps |-> HeaderDeps(p.after),
                           commands |-> [k \in 1..(j - i - 1) |-> Trim(ls[i + k])]]))

\* the HashMap `deps` after the first loop: a later insert of a name
\* replaces the earlier one
DepsMap(headers) ==
    [n \in {headers[k].name : k \in 1..Len(headers)} |->
        LET last == CHOOSE k \in 1..Len(headers) :
                        /\ headers[k].name = n
                        /\ \A m \in (k + 1)..Len(headers) : headers[m].name # n
        IN  headers[last].deps]

\* targets.iter().find(|t| t.name == name): the position of the first
\* target of that name, 0 when there is none
RECURSIVE FindFrom(_, _, _)
FindFrom(targets, name, i) ==
    IF i > Len(targets) THEN 0
    ELSE IF targets[i].name = name THEN i
    ELSE FindFrom(targets, name, i + 1)

Find(targets, name) == FindFrom(targets, name, 1)

\* the closure of the second loop: a name of a target links to that target,
\* any other name is a file
Resolve(headers, name) ==
    LET i == Find(headers, name)
    IN  IF i # 0 THEN [kind |-> "Target", target |-> i, file |-> <<>>]
        ELSE [kind |-> "File", target |-> 0, file |-> name]

\* (a variant of LinkFrom that links a name only to a target defined no
\* later than its user, as linking inside the first loop would)
RECURSIVE LinkFromEarlier(_, _, _, _)
LinkFromEarlier(headers, map, i, acc) ==
    IF i > Len(headers) THEN [error |-> "None", targets |-> acc]
    ELSE LET n == headers[i].name
         IN  IF n \notin DOMAIN map THEN [error |-> "Panic", targets |-> acc]
             ELSE LinkFromEarlier(headers,
                      [m \in (DOMAIN map) \ {n} |-> map[m]],
                      i + 1,
                      Append(acc,
                          [name |-> n,
                           dependencies |->
                               [k \in 1..Len(map[n]) |->
                                   Resolve(SubSeq(headers, 1, i), map[n][k])],
                           commands |-> headers[i].commands]))

\* the second loop: each target removes its name from `deps` and links the
\* names found there; unwrap() panics when the name is gone
RECURSIVE LinkFrom(_, _, _, _)
LinkFrom(headers, map, i, acc) ==
    IF i > Len(headers) THEN [error |-> "None", targets |-> acc]
    ELSE LET n == headers[i].name
         IN  IF n \notin DOMAIN map THEN [error |-> "Panic", targets |-> acc]
             ELSE LinkFrom(headers,
                      [m \in (DOMAIN map) \ {n} |-> map[m]],
                      i + 1,
                      Append(acc,
                          [name |-> n,
                           dependencies |->
                               [k \in 1..Len(map[n]) |-> Resolve(headers, map[n][k])],
                           commands |-> headers[i].commands]))

\* Makefile::from_str: the Makefile, or the error (a panic aborts the process)
FromStr(data) ==
    LET p == ParseFrom(PreparedLines(data), 1, <<>>)
    IN  IF p.error # "None" THEN [error |-> p.error, targets |-> <<>>]
        ELSE LET l == LinkFrom(p.headers, DepsMap(p.headers), 1, <<>>)
             IN  IF l.error # "None" THEN [error |-> l.error, targets |-> <<>>]
                 ELSE [error |-> "None", targets |-> l.targets]

(***************************************************************************)
(* The inputs: the Makefile, the command line, the file system.            *)
(***************************************************************************)
\* the sequences over S of length at most n
SeqsUpTo(S, n) == UNION {[1..k -> S] : k \in 0..n}

\* the names generated header lines define
TargetNames == {<<"a">>, <<"b">>}

\* the one path that is never a generated target
FileName == <<"f">>

\* the paths that may exist; every other path never exists
Paths == {FileName}

\* the dependency lists of generated header lines
DepLists == {<<>>, <<<<"a">>>>, <<<<"b">>>>, <<FileName>>}

\* the command lists of generated targets
CommandLists == {<<>>, <<<<"x">>>>}

RECURSIVE DepsText(_)
DepsText(deps) ==
    IF deps = <<>> THEN <<>> ELSE <<" ">> \o Head(deps) \o DepsText(Tail(deps))

RECURSIVE CommandsText(_)
CommandsText(commands) ==
    IF commands = <<>> THEN <<>>
    ELSE <<"\t">> \o Head(commands) \o <<"\n">> \o CommandsText(Tail(commands))

\* a header line `name: dep1 dep2 ...` and its command lines
Block(name, deps, commands) ==
    name \o <<":">> \o DepsText(deps) \o <<"\n">> \o CommandsText(commands)

Blocks == {Block(n, d, c) : n \in TargetNames, d \in DepLists, c \in CommandLists}

\* the texts of at most n blocks
RECURSIVE Generated(_)
Generated(n) ==
    IF n = 0 THEN {<<>>}
    ELSE LET G == Generated(n - 1) IN G \cup {t \o b : t \in G, b \in Blocks}

\* Makefiles of more targets, more dependencies, more commands and other
\* spellings than the generated ones
Scenarios == {
    \* a: b c / b: / c:, each with a command of its own
    <<"a", ":", " ", "b", " ", "c", "\n", "\t", "x", "\n",
      "b", ":", "\n", "\t", "y", "\n",
      "c", ":", "\n", "\t", "z", "\n">>,
    \* a file before a target in one dependency list
    <<"a", ":", " ", "f", " ", "b", "\n", "\t", "x", "\n",
      "b", ":", "\n", "\t", "y", "\n">>,
    \* a file after a target in one dependency list
    <<"a", ":", " ", "b", " ", "f", "\n", "\t", "x", "\n",
      "b", ":", "\n", "\t", "y", "\n">>,
    \* the same target twice in one dependency list
    <<"a", ":", " ", "b", " ", "b", "\n", "\t", "x", "\n",
      "b", ":", "\n", "\t", "y", "\n">>,
    \* a chain with a file at its end
    <<"a", ":", " ", "b", "\n", "\t", "x", "\n",
      "b", ":", " ", "c", "\n", "\t", "y", "\n",
      "c", ":", " ", "f", "\n", "\t", "z", "\n">>,
    \* a: b c / b: d / c: d / d:
    <<"a", ":", " ", "b", " ", "c", "\n",
      "b", ":", " ", "d", "\n",
      "c", ":", " ", "d", "\n",
      "d", ":", "\n", "\t", "x", "\n">>,
    \* two commands under one header
    <<"a", ":", "\n", "\t", "x", "\n", "\t", "y", "\n">>,
    \* a header written `a : b`
    <<"a", " ", ":", " ", "b", "\n", "\t", "x", "\n",
      "b", ":", "\n", "\t", "y", "\n">>,
    \* a dependency on the target of a header written `a :`
    <<"b", ":", " ", "a", "\n", "\t", "y", "\n",
      "a", " ", ":", "\n", "\t", "x", "\n">>,
    \* comment lines, an empty line and a comment at the end of lines
    <<"#", "c", "\n", "\n",
      "a", ":", " ", "b", " ", "#", " ", "f", "\n",
      "\t", "x", " ", "#", "y", "\n", " ", "#", "\n",
      "b", ":", "\n">>,
    \* a line in header position without ':'
    <<"a", ":", "\n", "\t", "x", "\n", "b", "\n">>,
    \* a target that lists itself after a file
    <<"a", ":", " ", "f", " ", "a", "\n", "\t", "x", "\n">>,
    \* a target that lists itself after a target with a command
    <<"a", ":", " ", "b", " ", "a", "\n", "\t", "x", "\n",
      "b", ":", "\n", "\t", "y", "\n">>
}

Inputs == Generated(MaxTargets) \cup Scenarios

\* the names a command line draws from
ArgNames == {<<"a">>, FileName}

\* the command lines: none, every list of ArgNames, and the ones that name
\* the second generated target
ArgLists ==
    SeqsUpTo(ArgNames, MaxArgs)
        \cup {<<<<"b">>>>, <<<<"a">>, <<"b">>>>, <<<<"b">>, <<"a">>>>}

\* the lines the texts given to the parser alone are made of: headers
\* (plain, with a space before the ':', with a dependency, with a comment
\* at the end, with a tab in front), command lines (plain, with blanks
\* around, with a comment at the end, a tab alone), comment lines, an empty
\* line, a blank line, and lines without ':' (before a '#' or at all)
LineChoices == {
    <<"a", ":">>,
    <<"b", ":", " ", "a">>,
    <<"a", " ", ":">>,
    <<"b", ":", " ", "a", " ", "#", "c">>,
    <<"\t", "b", ":">>,
    <<"\t", "x">>,
    <<"\t", " ", "y", " ">>,
    <<"\t", "x", "#", "y">>,
    <<"\t">>,
    <<"#", "c">>,
    <<"\t", "#", "c">>,
    <<>>,
    <<" ">>,
    <<"x">>,
    <<"a", "#", ":">>
}

\* the lines ls, one "\n" between each two
RECURSIVE Join(_)
Join(ls) ==
    IF ls = <<>> THEN <<>>
    ELSE IF Len(ls) = 1 THEN Head(ls)
    ELSE Head(ls) \o <<"\n">> \o Join(Tail(ls))

\* the texts of at most MaxLines lines; the text whose last line is empty
\* ends with "\n"
ParseInputs == {Join(ls) : ls \in SeqsUpTo(LineChoices, MaxLines)}

(***************************************************************************)
(* main, Makefile::make and Target::make.                                  *)
(***************************************************************************)
NoOutput == [status |-> 0, stderr |-> <<>>]

Init ==
    /\ makefile_src \in Inputs
    /\ args \in ArgLists
    /\ fs \in SUBSET Paths
    /\ pc = "start"
    /\ makefile = <<>>
    /\ argi = 0
    /\ stack = <<>>
    /\ output = NoOutput
    /\ stdout = <<>>
    /\ stderr = <<>>
    /\ executed = <<>>
    /\ requests = <<>>
    /\ result = "Running"

\* (a variant of Fail in which the error of a dependency ends only the call
\* that met it, as a call without `?` would have it)
FailInnermost(e) ==
    IF Len(stack) > 1
    THEN /\ stack' = [SubSeq(stack, 1, Len(stack) - 1)
                         EXCEPT ![Len(stack) - 1].dep = @ + 1]
         /\ UNCHANGED <<pc, result>>
    ELSE /\ result' = e
         /\ pc' = "done"
         /\ stack' = <<>>

\* an error returned through every `?` up to main, which returns it
Fail(e) ==
    /\ result' = e
    /\ pc' = "done"
    /\ stack' = <<>>

\* main: the Makefile is parsed
Parse ==
    /\ pc = "start"
    /\ LET m == FromStr(makefile_src)
       IN  IF m.error # "None"
           THEN /\ Fail(m.error)
                /\ UNCHANGED makefile
           ELSE /\ makefile' = m.targets
                /\ pc' = "main"
                /\ UNCHANGED <<stack, result>>
    /\ UNCHANGED <<makefile_src, args, fs, argi, output, stdout, stderr, executed, requests>>

\* a call of Target::make on target i: the dependencies satisfied and the
\* commands run so far, and how many commands had run when it began (history)
Frame(i) == [target |-> i, dep |-> 0, cmd |-> 0, from |-> Len(executed)]

\* (a variant of MakeRequest that takes an existing file of that name for a
\* target with nothing to do)
MakeRequestOrFile(name) ==
    LET i == Find(makefile, name)
    IN  /\ requests' = Append(requests,
                           [name |-> name, fs |-> fs, executed |-> Len(executed),
                            stdout |-> Len(stdout), stderr |-> Len(stderr)])
        /\ IF i = 0
           THEN IF name \in fs
                THEN UNCHANGED <<stack, pc, result>>
                ELSE Fail("NoSuchTarget")
           ELSE /\ stack' = <<Frame(i)>>
                /\ pc' = "make"
                /\ UNCHANGED result

\* Makefile::make(name): the first target of that name is built, and a
\* name of no target is an error
MakeRequest(name) ==
    LET i == Find(makefile, name)
    IN  /\ requests' = Append(requests,
                           [name |-> name, fs |-> fs, executed |-> Len(executed),
                            stdout |-> Len(stdout), stderr |-> Len(stderr)])
        /\ IF i = 0
           THEN Fail("NoSuchTarget")
           ELSE /\ stack' = <<Frame(i)>>
                /\ pc' = "make"
                /\ UNCHANGED result

\* (a variant of MainArg that takes the names from the end of the command
\* line)
MainArgFromLast ==
    /\ pc = "main"
    /\ Len(args) > 0
    /\ argi < Len(args)
    /\ argi' = argi + 1
    /\ MakeRequest(args[Len(args) - argi])
    /\ UNCHANGED <<makefile_src, args, fs, makefile, output, stdout, stderr, executed>>

\* main: the next name of the command line is built
MainArg ==
    /\ pc = "main"
    /\ Len(args) > 0
    /\ argi < Len(args)
    /\ argi' = argi + 1
    /\ MakeRequest(args[argi + 1])
    /\ UNCHANGED <<makefile_src, args, fs, makefile, output, stdout, stderr, executed>>

\* (a variant of MainDefault that builds the last target of the Makefile)
MainDefaultLast ==
    /\ pc = "main"
    /\ Len(args) = 0
    /\ argi = 0
    /\ IF makefile = <<>>
       THEN /\ Fail("NoTargets")
            /\ UNCHANGED <<argi, requests>>
       ELSE /\ argi' = 1
            /\ MakeRequest(makefile[Len(makefile)].name)
    /\ UNCHANGED <<makefile_src, args, fs, makefile, output, stdout, stderr, executed>>

\* main: without names, the first target of the Makefile is built
MainDefault ==
    /\ pc = "main"
    /\ Len(args) = 0
    /\ argi = 0
    /\ IF makefile = <<>>
       THEN /\ Fail("NoTargets")
            /\ UNCHANGED <<argi, requests>>
       ELSE /\ argi' = 1
            /\ MakeRequest(makefile[1].name)
    /\ UNCHANGED <<makefile_src, args, fs, makefile, output, stdout, stderr, executed>>

\* main: every request has returned Ok
MainExit ==
    /\ pc = "main"
    /\ argi = (IF Len(args) > 0 THEN Len(args) ELSE 1)
    /\ result' = "Ok"
    /\ pc' = "done"
    /\ UNCHANGED <<makefile_src, args, fs, makefile, argi, stack, output, stdout,
                   stderr, executed, requests>>

\* the innermost call of Target::make and its target
Top == stack[Len(stack)]
TopTarget == makefile[Top.target]

\* (a variant of DepsDone that leaves the first loop after one dependency)
DepsDoneAfterFirst(f) ==
    f.dep >= 1 \/ f.dep = Len(makefile[f.target].dependencies)

\* the first loop of Target::make is over
DepsDone(f) == f.dep = Len(makefile[f.target].dependencies)

\* the second loop of Target::make is over
CommandsDone(f) == f.cmd = Len(makefile[f.target].commands)

\* (a variant of NextDep that walks the dependency list from its end)
NextDepFromRight ==
    TopTarget.dependencies[Len(TopTarget.dependencies) - Top.dep]

\* the dependency the first loop stands at
NextDep == TopTarget.dependencies[Top.dep + 1]

\* the command the second loop stands at
NextCommand == TopTarget.commands[Top.cmd + 1]

\* the innermost frame with f in its place
SetTop(f) == [stack EXCEPT ![Len(stack)] = f]

\* (a variant of Exists that takes every path to exist)
ExistsAlways(f) == TRUE

\* Path::new(f).exists()
Exists(f) == f \in fs

\* (a variant of CommandFailed that reads the exit status)
CommandFailedByStatus(out) == out.status # 0

\* the test on the captured output that makes a command a failure
CommandFailed(out) == out.stderr # <<>>

\* (a variant of MakeDepTarget with a guard against cycles: a dependency on
\* a target that is being built counts as satisfied)
MakeDepTargetUnlessActive ==
    /\ pc = "make"
    /\ ~DepsDone(Top)
    /\ NextDep.kind = "Target"
    /\ Len(stack) < MaxDepth
    /\ IF \E k \in 1..Len(stack) : stack[k].target = NextDep.target
       THEN stack' = SetTop([Top EXCEPT !.dep = @ + 1])
       ELSE stack' = Append(stack, Frame(NextDep.target))
    /\ UNCHANGED <<makefile_src, args, fs, pc, makefile, argi, output, stdout,
                   stderr, executed, requests, result>>

\* (a variant of MakeDepTarget that remembers what a request has built: a
\* target whose last command has run since the request is not built again)
MakeDepTargetOnce ==
    /\ pc = "make"
    /\ ~DepsDone(Top)
    /\ NextDep.kind = "Target"
    /\ Len(stack) < MaxDepth
    /\ IF \E k \in (requests[Len(requests)].executed + 1)..Len(executed) :
              /\ executed[k].target = NextDep.target
              /\ executed[k].index = Len(makefile[NextDep.target].commands)
       THEN stack' = SetTop([Top EXCEPT !.dep = @ + 1])
       ELSE stack' = Append(stack, Frame(NextDep.target))
    /\ UNCHANGED <<makefile_src, args, fs, pc, makefile, argi, output, stdout,
                   stderr, executed, requests, result>>

\* Target::make, first loop: a dependency that is a target is built
MakeDepTarget ==
    /\ pc = "make"
    /\ ~DepsDone(Top)
    /\ NextDep.kind = "Target"
    /\ Len(stack) < MaxDepth
    /\ stack' = Append(stack, Frame(NextDep.target))
    /\ UNCHANGED <<makefile_src, args, fs, pc, makefile, argi, output, stdout,
                   stderr, executed, requests, result>>

\* the recursion of Target::make exhausts the stack of the process, which
\* is aborted
StackOverflow ==
    /\ pc = "make"
    /\ ~DepsDone(Top)
    /\ NextDep.kind = "Target"
    /\ Len(stack) >= MaxDepth
    /\ Fail("StackOverflow")
    /\ UNCHANGED <<makefile_src, args, fs, makefile, argi, output, stdout, stderr,
                   executed, requests>>

\* Target::make, first loop: a dependency that is a file must exist
MakeDepFile ==
    /\ pc = "make"
    /\ ~DepsDone(Top)
    /\ NextDep.kind = "File"
    /\ IF Exists(NextDep.file)
       THEN /\ stack' = SetTop([Top EXCEPT !.dep = @ + 1])
            /\ UNCHANGED <<pc, result>>
       ELSE Fail("DependencyDoesNotExist")
    /\ UNCHANGED <<makefile_src, args, fs, makefile, argi, output, stdout, stderr,
                   executed, requests>>

\* (a variant of MakeCommand that prints the command after it has run, and
\* only when it has not failed)
MakeCommandEchoAfter ==
    /\ pc = "make"
    /\ DepsDone(Top)
    /\ ~CommandsDone(Top)
    /\ \E status \in {0, 1}, err \in {<<>>, <<"e">>}, files \in SUBSET Paths :
          LET out == [status |-> status, stderr |-> err]
          IN  /\ executed' = Append(executed,
                                 [target |-> Top.target, index |-> Top.cmd + 1,
                                  command |-> NextCommand, stderr |-> err])
              /\ output' = out
              /\ fs' = files
              /\ IF CommandFailed(out)
                 THEN /\ stderr' = stderr \o out.stderr
                      /\ Fail("BuildError")
                      /\ UNCHANGED stdout
                 ELSE /\ stdout' = Append(stdout, NextCommand)
                      /\ stack' = SetTop([Top EXCEPT !.cmd = @ + 1])
                      /\ UNCHANGED <<stderr, pc, result>>
    /\ UNCHANGED <<makefile_src, args, makefile, argi, requests>>

\* Target::make, second loop: the command is printed and run by a shell to
\* its end; the shell may change the file system
MakeCommand ==
    /\ pc = "make"
    /\ DepsDone(Top)
    /\ ~CommandsDone(Top)
    /\ \E status \in {0, 1}, err \in {<<>>, <<"e">>}, files \in SUBSET Paths :
          LET out == [status |-> status, stderr |-> err]
          IN  /\ stdout' = Append(stdout, NextCommand)
              /\ executed' = Append(executed,
                                 [target |-> Top.target, index |-> Top.cmd + 1,
                                  command |-> NextCommand, stderr |-> err])
              /\ output' = out
              /\ fs' = files
              /\ IF CommandFailed(out)
                 THEN /\ stderr' = stderr \o out.stderr
                      /\ Fail("BuildError")
                 ELSE /\ stack' = SetTop([Top EXCEPT !.cmd = @ + 1])
                      /\ UNCHANGED <<stderr, pc, result>>
    /\ UNCHANGED <<makefile_src, args, makefile, argi, requests>>

\* Target::make, second loop: the command is printed and the shell cannot
\* be started
MakeCommandIoError ==
    /\ pc = "make"
    /\ DepsDone(Top)
    /\ ~CommandsDone(Top)
    /\ stdout' = Append(stdout, NextCommand)
    /\ Fail("IoError")
    /\ UNCHANGED <<makefile_src, args, fs, makefile, argi, output, stderr, executed,
                   requests>>

\* (a variant of MakeReturn after which the caller's first loop stays at the
\* dependency that was just built)
MakeReturnSameDep ==
    /\ pc = "make"
    /\ DepsDone(Top)
    /\ CommandsDone(Top)
    /\ IF Len(stack) = 1
       THEN /\ stack' = <<>>
            /\ pc' = "main"
       ELSE /\ stack' = SubSeq(stack, 1, Len(stack) - 1)
            /\ UNCHANGED pc
    /\ UNCHANGED <<makefile_src, args, fs, makefile, argi, output, stdout, stderr,
                   executed, requests, result>>

\* Target::make returns Ok(()): the caller's first loop goes on, or
\* Makefile::make returns to main
MakeReturn ==
    /\ pc = "make"
    /\ DepsDone(Top)
    /\ CommandsDone(Top)
    /\ IF Len(stack) = 1
       THEN /\ stack' = <<>>
            /\ pc' = "main"
       ELSE /\ stack' = [SubSeq(stack, 1, Len(stack) - 1)
                            EXCEPT ![Len(stack) - 1].dep = @ + 1]
            /\ UNCHANGED pc
    /\ UNCHANGED <<makefile_src, args, fs, makefile, argi, output, stdout, stderr,
                   executed, requests, result>>

Next ==
    \/ Parse
    \/ MainArg
    \/ MainDefault
    \/ MainExit
    \/ MakeDepTarget
    \/ StackOverflow
    \/ MakeDepFile
    \/ MakeCommand
    \/ MakeCommandIoError
    \/ MakeReturn

Spec == Init /\ [][Next]_vars

\* a step of main after the Makefile has been parsed
Run == pc # "start" /\ Next

\* the program keeps running: main, Makefile::make and Target::make are
\* sequential code, and every command runs to its end
FairSpec == Spec /\ WF_vars(Run)

\* main up to the result of Makefile::from_str, over the texts of
\* ParseInputs: no name is requested
InitParse ==
    /\ makefile_src \in ParseInputs
    /\ args = <<>>
    /\ fs = {}
    /\ pc = "start"
    /\ makefile = <<>>
    /\ argi = 0
    /\ stack = <<>>
    /\ output = NoOutput
    /\ stdout = <<>>
    /\ stderr = <<>>
    /\ executed = <<>>
    /\ requests = <<>>
    /\ result = "Running"

SpecParse == InitParse /\ [][Parse]_vars

(***************************************************************************)
(* The Makefile as written, for the statements below: the header lines in  *)
(* order, names looked up by equality, the earliest header first.          *)
(***************************************************************************)
Headers == ParseFrom(PreparedLines(makefile_src), 1, <<>>).headers

\* every line in header position holds a ':'
HeadersOk == ParseFrom(PreparedLines(makefile_src), 1, <<>>).error = "None"

\* the parser returned a Makefile
Parsed == pc # "start" /\ result \notin {"LineIsNotATarget", "Panic"}

\* the earliest of the headers H named n, 0 when none is
Earliest(H, n) ==
    LET S == {i \in 1..Len(H) : H[i].name = n}
    IN  IF S = {} THEN 0 ELSE CHOOSE i \in S : \A j \in S : i <= j

\* the targets the dependency list of header i names
Succ(H, i) == {Earliest(H, H[i].deps[k]) : k \in 1..Len(H[i].deps)} \ {0}

RECURSIVE Closure(_, _, _)
Closure(H, S, n) ==
    IF n = 0 THEN S ELSE Closure(H, S \cup UNION {Succ(H, i) : i \in S}, n - 1)

\* the targets header i depends on, directly or not
Descendants(H, i) == Closure(H, Succ(H, i), Len(H))

\* no target that the build of header i visits depends on itself
AcyclicFrom(H, i) ==
    \A j \in {i} \cup Descendants(H, i) : j \notin Descendants(H, j)

\* the commands of header i, as entries of the history
Own(H, i) ==
    [c \in 1..Len(H[i].commands) |->
        [target |-> i, index |-> c, command |-> H[i].commands[c]]]

\* the depth-first, left-to-right order of the commands of header i: for
\* each dependency, in written order, that names a target, the order of
\* that target, and then the commands of i (over at most n levels)
RECURSIVE Order(_, _, _)
RECURSIVE OrderOfDeps(_, _, _, _)
OrderOfDeps(H, i, k, n) ==
    IF k > Len(H[i].deps) THEN <<>>
    ELSE LET j == Earliest(H, H[i].deps[k])
         IN  (IF j = 0 THEN <<>> ELSE Order(H, j, n)) \o OrderOfDeps(H, i, k + 1, n)
Order(H, i, n) ==
    IF n = 0 THEN <<>> ELSE OrderOfDeps(H, i, 1, n - 1) \o Own(H, i)

DepthFirst(H, i) == Order(H, i, Len(H) + 1)

\* the commands run after the n-th up to the m-th, without what they wrote
Ran(n, m) ==
    [k \in 1..(m - n) |->
        [target |-> executed[n + k].target, index |-> executed[n + k].index,
         command |-> executed[n + k].command]]

IsPrefix(s, t) == Len(s) <= Len(t) /\ s = SubSeq(t, 1, Len(s))

\* the request main made last
LastRequest == requests[Len(requests)]

(***************************************************************************)
(* C1: in a Makefile whose graph is acyclic from the requested target T,   *)
(* the commands run for the request are at every moment a prefix of the    *)
(* depth-first, left-to-right order of T (each dependency that names a     *)
(* target, in written order, with its whole order first, then T's own      *)
(* commands), and they are exactly that order once the request has         *)
(* returned Ok, that is when every file existed and every command          *)
(* succeeded.                                                              *)
(***************************************************************************)
C1_DepthFirstOrder ==
    (Parsed /\ requests # <<>>) =>
        LET H == Headers
            T == Earliest(H, LastRequest.name)
            ran == Ran(LastRequest.executed, Len(executed))
        IN  (T # 0 /\ AcyclicFrom(H, T)) =>
                /\ IsPrefix(ran, DepthFirst(H, T))
                /\ (pc = "main" \/ result = "Ok") => ran = DepthFirst(H, T)

\* a: b c has been built: the command of b, of c, then of a
C1_Witness ==
    /\ pc = "main"
    /\ Len(requests) = 1
    /\ Len(makefile) = 3
    /\ Len(makefile[1].dependencies) = 2
    /\ [k \in 1..Len(executed) |-> executed[k].target] = <<2, 3, 1>>

(***************************************************************************)
(* C2: a command that wrote to its error stream is the last command of the *)
(* run: the run has ended with BuildError, no call of Target::make is left *)
(* and nothing was printed after that command's line; so neither the rest  *)
(* of its target's commands, nor the targets depending on it, nor the      *)
(* dependencies listed after it, nor a later request runs a command.       *)
(***************************************************************************)
C2_NoCommandAfterFailure ==
    \A k \in 1..Len(executed) :
        executed[k].stderr # <<>> =>
            /\ k = Len(executed)
            /\ result = "BuildError"
            /\ pc = "done"
            /\ stack = <<>>
            /\ Len(stdout) = Len(executed)

\* in a: b c, requested before another name, the command of b failed: the
\* commands of c and of a and the second request are left
C2_Witness ==
    /\ result = "BuildError"
    /\ Len(makefile) = 3
    /\ Len(makefile[1].dependencies) = 2
    /\ Len(args) = 2
    /\ Len(requests) = 1
    /\ Len(executed) = 1
    /\ executed[1].target = 2

\* the name, as written, of the dependency the innermost call stands at
NextDepName(H) == H[Top.target].deps[Top.dep + 1]

\* the innermost call stands at a dependency that names no target and no
\* existing path
AtMissingFile(H) ==
    /\ pc = "make"
    /\ Top.dep < Len(H[Top.target].deps)
    /\ Earliest(H, NextDepName(H)) = 0
    /\ NextDepName(H) \notin fs

(***************************************************************************)
(* C3 as stated: a build of a target whose dependencies, direct or not,    *)
(* hold a name of no target that exists neither when the build is          *)
(* requested nor when it ends, ends with DependencyDoesNotExist.           *)
(***************************************************************************)
C3_AlwaysDependencyDoesNotExist ==
    (Parsed /\ pc = "done" /\ requests # <<>>) =>
        LET H == Headers
            T == Earliest(H, LastRequest.name)
        IN  (/\ T # 0
             /\ \E j \in {T} \cup Descendants(H, T) :
                    \E k \in 1..Len(H[j].deps) :
                        /\ Earliest(H, H[j].deps[k]) = 0
                        /\ H[j].deps[k] \notin LastRequest.fs
                        /\ H[j].deps[k] \notin fs)
            => result = "DependencyDoesNotExist"

(***************************************************************************)
(* C3, amended: when Target::make comes to a dependency whose name matches *)
(* no target while no path of that name exists, its next step ends the run *)
(* with DependencyDoesNotExist and runs and prints nothing, wherever the   *)
(* name stands in the list and however deep the call is; and a run ends    *)
(* with DependencyDoesNotExist only so.                                    *)
(***************************************************************************)
C3_MissingFileFails ==
    [][/\ AtMissingFile(Headers) =>
            /\ result' = "DependencyDoesNotExist"
            /\ pc' = "done"
            /\ executed' = executed
            /\ stdout' = stdout
       /\ (result = "Running" /\ result' = "DependencyDoesNotExist") =>
            AtMissingFile(Headers)]_vars

\* a: b / b: c / c: f without f: the build of a has failed three calls deep
C3_Witness ==
    /\ result = "DependencyDoesNotExist"
    /\ Len(makefile) = 3
    /\ Len(requests) = 1
    /\ LastRequest.name = <<"a">>
    /\ makefile[1].dependencies = <<[kind |-> "Target", target |-> 2, file |-> <<>>]>>
    /\ makefile[2].dependencies = <<[kind |-> "Target", target |-> 3, file |-> <<>>]>>
    /\ makefile[3].dependencies = <<[kind |-> "File", target |-> 0, file |-> FileName]>>

\* every dependency of header i that names a target has had all its
\* commands run since the call f began
DepsBuilt(H, f) ==
    \A k \in 1..Len(H[f.target].deps) :
        LET j == Earliest(H, H[f.target].deps[k])
        IN  j # 0 =>
                \A c \in 1..Len(H[j].commands) :
                    \E e \in (f.from + 1)..Len(executed) :
                        executed[e].target = j /\ executed[e].index = c

(***************************************************************************)
(* C4: a step that runs a command of a target is taken by a call that has  *)
(* passed every entry of the target's dependency list, every target among  *)
(* them having had all its commands run within the call; the call passes   *)
(* an entry that names no target only when that path exists; and the step  *)
(* that fails with DependencyDoesNotExist is taken by a call that has run  *)
(* no command of its own, runs none, and ends the run.                     *)
(***************************************************************************)
C4_DependenciesFirst ==
    [][LET H == Headers
       IN  /\ executed' # executed =>
                /\ Top.dep = Len(H[Top.target].deps)
                /\ DepsBuilt(H, Top)
                /\ executed'[Len(executed')].target = Top.target
           /\ (/\ pc = "make" /\ pc' = "make"
               /\ Len(stack') = Len(stack)
               /\ stack'[Len(stack')].dep = Top.dep + 1) =>
                (Earliest(H, NextDepName(H)) = 0 => NextDepName(H) \in fs)
           /\ (result = "Running" /\ result' = "DependencyDoesNotExist") =>
                /\ Top.cmd = 0
                /\ executed' = executed
                /\ pc' = "done"]_vars

\* a: b f without f: b was built, and the build failed before the command
\* of a
C4_Witness ==
    /\ result = "DependencyDoesNotExist"
    /\ Len(makefile) = 2
    /\ Len(makefile[1].dependencies) = 2
    /\ makefile[1].dependencies[2].kind = "File"
    /\ makefile[1].commands # <<>>
    /\ Len(executed) = 1
    /\ executed[1].target = 2

(***************************************************************************)
(* C5: of the output captured from a command only the error stream         *)
(* decides: when it is empty the call goes on to its next command, the     *)
(* run still going, and when it is not the run ends with BuildError,       *)
(* whatever the exit status is in either case.                             *)
(***************************************************************************)
C5_ErrorStreamDecides ==
    [][executed' # executed =>
        /\ output'.stderr = executed'[Len(executed')].stderr
        /\ output'.stderr = <<>> =>
                /\ result' = "Running"
                /\ pc' = "make"
                /\ stack' = [stack EXCEPT ![Len(stack)].cmd = @ + 1]
        /\ output'.stderr # <<>> =>
                /\ result' = "BuildError"
                /\ pc' = "done"]_vars

\* the first of two commands has exited with a status other than 0 and an
\* empty error stream, and the call stands at the second
C5_Witness ==
    /\ pc = "make"
    /\ result = "Running"
    /\ Len(executed) = 1
    /\ output.status = 1
    /\ output.stderr = <<>>
    /\ Top.cmd = 1
    /\ Len(TopTarget.commands) = 2

\* no target of the Makefile is named n
NoTargetNamed(n) == \A i \in 1..Len(makefile) : makefile[i].name # n

(***************************************************************************)
(* C6: a request of main for a name that no target of the Makefile has is  *)
(* the last one, the run has ended with NoSuchTarget, and since the        *)
(* request no command has run, nothing has been written to either stream   *)
(* and no path has changed, whether or not a path of that name exists; and *)
(* a run ends with NoSuchTarget only so.                                   *)
(***************************************************************************)
C6_NoSuchTarget ==
    Parsed =>
        /\ \A k \in 1..Len(requests) :
                NoTargetNamed(requests[k].name) =>
                    /\ k = Len(requests)
                    /\ result = "NoSuchTarget"
                    /\ pc = "done"
                    /\ Len(executed) = requests[k].executed
                    /\ Len(stdout) = requests[k].stdout
                    /\ Len(stderr) = requests[k].stderr
                    /\ fs = requests[k].fs
        /\ result = "NoSuchTarget" =>
                requests # <<>> /\ NoTargetNamed(LastRequest.name)

\* after a first request that ran a command, the name of an existing file
\* that is no target was requested
C6_Witness ==
    /\ result = "NoSuchTarget"
    /\ Len(requests) = 2
    /\ LastRequest.name = FileName
    /\ FileName \in fs
    /\ Len(executed) > 0

\* the name a dependency of the parsed Makefile stands for
DepName(d) == IF d.kind = "Target" THEN makefile[d.target].name ELSE d.file

(***************************************************************************)
(* C7 as stated: when two header lines carry the same name, the parser     *)
(* returns a Makefile with one target per header line, each with the       *)
(* dependency names and the commands of its own line, every dependency     *)
(* name that a header carries linked to the earliest target of that name.  *)
(***************************************************************************)
C7_DuplicateNamesParse ==
    LET H == Headers
    IN  (/\ pc # "start"
         /\ HeadersOk
         /\ \E i, j \in 1..Len(H) : i < j /\ H[i].name = H[j].name) =>
            /\ result # "Panic"
            /\ Len(makefile) = Len(H)
            /\ \A i \in 1..Len(makefile) :
                    /\ makefile[i].commands = H[i].commands
                    /\ Len(makefile[i].dependencies) = Len(H[i].deps)
                    /\ \A k \in 1..Len(makefile[i].dependencies) :
                            LET d == makefile[i].dependencies[k]
                            IN  /\ DepName(d) = H[i].deps[k]
                                /\ d.target = Earliest(H, H[i].deps[k])

(***************************************************************************)
(* C8 as stated: the name of every parsed target is the text before the    *)
(* first ':' of its header line without the whitespace around it, and its  *)
(* dependencies stand for the whitespace-separated words of the text after *)
(* that ':'.                                                               *)
(***************************************************************************)
C8_HeaderNameTrimmed ==
    Parsed =>
        LET H == Headers
        IN  /\ Len(makefile) = Len(H)
            /\ \A i \in 1..Len(makefile) :
                    /\ makefile[i].name = Trim(H[i].target)
                    /\ [k \in 1..Len(makefile[i].dependencies) |->
                            DepName(makefile[i].dependencies[k])]
                         = SplitWhitespace(H[i].dependencies)

(***************************************************************************)
(* C9: on a command line without names main makes at most one request, for *)
(* the name of the first target of the Makefile, and the build it starts   *)
(* is of that first target; main has made exactly one when it returns      *)
(* from a Makefile with targets; from a Makefile without targets it        *)
(* returns NoTargets, having made no request, run no command and printed   *)
(* nothing; and NoTargets is returned only so.                             *)
(***************************************************************************)
C9_DefaultTarget ==
    /\ (Parsed /\ args = <<>>) =>
            /\ Len(requests) <= 1
            /\ makefile = <<>> =>
                    /\ pc = "done" => result = "NoTargets"
                    /\ requests = <<>> /\ executed = <<>> /\ stdout = <<>>
            /\ makefile # <<>> =>
                    /\ requests # <<>> => LastRequest.name = makefile[1].name
                    /\ stack # <<>> => stack[1].target = 1
                    /\ pc = "done" => Len(requests) = 1
                    /\ \A k \in 1..Len(executed) :
                            executed[k].target \in {1} \cup Descendants(Headers, 1)
    /\ result = "NoTargets" => Parsed /\ args = <<>> /\ makefile = <<>>

\* without names, the first target, b, of a Makefile of two was built and
\* main returned Ok
C9_Witness ==
    /\ args = <<>>
    /\ result = "Ok"
    /\ Len(makefile) = 2
    /\ makefile[1].name = <<"b">>
    /\ Len(requests) = 1
    /\ executed # <<>>

(***************************************************************************)
(* C10: main requests the names of the command line one by one in their    *)
(* order; when a request is made, every earlier one has run the whole      *)
(* depth-first order of its target and nothing else; an error of any kind  *)
(* leaves main done with no call in progress, so that no later name is     *)
(* requested and no command of one runs; and main returns Ok only after    *)
(* the last name.                                                          *)
(***************************************************************************)
C10_RequestsInOrder ==
    (Parsed /\ args # <<>>) =>
        LET H == Headers
        IN  /\ Len(requests) = argi
            /\ argi <= Len(args)
            /\ \A k \in 1..Len(requests) : requests[k].name = args[k]
            /\ \A k \in 1..(Len(requests) - 1) :
                    LET T == Earliest(H, requests[k].name)
                    IN  /\ T # 0
                        /\ Ran(requests[k].executed, requests[k + 1].executed)
                             = DepthFirst(H, T)
            /\ requests # <<>> => LastRequest.executed <= Len(executed)
            /\ (requests # <<>> /\ Earliest(H, LastRequest.name) # 0) =>
                    \A k \in (LastRequest.executed + 1)..Len(executed) :
                        executed[k].target \in
                            {Earliest(H, LastRequest.name)}
                                \cup Descendants(H, Earliest(H, LastRequest.name))
            /\ result \notin {"Running", "Ok"} => pc = "done" /\ stack = <<>>
            /\ result = "Ok" => pc = "done" /\ Len(requests) = Len(args)
            /\ pc = "done" => result # "Running"

\* of two names the first failed with a command's error: the second, a
\* target with a command, was never requested
C10_Witness ==
    /\ result = "BuildError"
    /\ args = << <<"a">>, <<"b">> >>
    /\ Len(requests) = 1
    /\ Find(makefile, <<"b">>) # 0
    /\ makefile[Find(makefile, <<"b">>)].commands # <<>>
    /\ \A k \in 1..Len(executed) : executed[k].target = Find(makefile, <<"a">>)

\* the name a dependency of the targets ts was written as
NameOf(ts, d) == IF d.kind = "Target" THEN ts[d.target].name ELSE d.file

\* the targets ts written out: for each, in order, the line
\* `name: dep1 dep2 ...` and one line, a tab and the command, per command
RECURSIVE SerializeFrom(_, _)
SerializeFrom(ts, i) ==
    IF i > Len(ts) THEN <<>>
    ELSE Block(ts[i].name,
               [k \in 1..Len(ts[i].dependencies) |-> NameOf(ts, ts[i].dependencies[k])],
               ts[i].commands)
             \o SerializeFrom(ts, i + 1)

Serialize(ts) == SerializeFrom(ts, 1)

(***************************************************************************)
(* C11: whenever a text parses to a Makefile, that Makefile written out as *)
(* `name: dep1 dep2 ...` lines, each followed by its commands as lines     *)
(* that begin with a tab, parses without error to the same Makefile: the   *)
(* same targets in the same order, each with the same name, the same       *)
(* dependencies and the same commands.                                     *)
(***************************************************************************)
C11_ParseIdempotent ==
    pc = "main" =>
        FromStr(Serialize(makefile)) = [error |-> "None", targets |-> makefile]

\* a text that is not its own written-out form (a comment, blanks around a
\* command) has parsed to a target with a dependency and a command
C11_Witness ==
    /\ pc = "main"
    /\ makefile_src # Serialize(makefile)
    /\ \E i \in 1..Len(makefile) :
          /\ makefile[i].dependencies # <<>>
          /\ makefile[i].commands = << <<"y">> >>
    /\ \E k \in 1..Len(makefile_src) : makefile_src[k] = "#"

\* what from_str has returned, once it has: the error, if any, and the
\* targets
Returned ==
    [error |-> IF result \in {"LineIsNotATarget", "Panic"} THEN result ELSE "None",
     targets |-> makefile]

\* a line up to and with its first '#', without the text after it
UpToHash(line) ==
    LET i == IndexOf(line, "#") IN IF i = 0 THEN line ELSE SubSeq(line, 1, i)

\* a line is a comment line: its first character that is not blank is '#'
IsCommentLine(line) == StartsWith(Trim(line), "#")

\* the lines of a text with every line cut after its first '#'
CutAfterHash(text) ==
    LET ls == Lines(text) IN Join([k \in 1..Len(ls) |-> UpToHash(ls[k])])

\* the lines of a text without the comment lines
WithoutCommentLines(text) ==
    LET NotComment(line) == ~IsCommentLine(line)
    IN  Join(SelectSeq(Lines(text), NotComment))

\* the character c occurs in s
Occurs(c, s) == \E k \in 1..Len(s) : s[k] = c

(***************************************************************************)
(* C12: nothing at or after the first '#' of a line reaches the parser's   *)
(* result: no target name, dependency name or command of a parsed Makefile *)
(* holds a '#', and the result (the Makefile or the error) is the one of   *)
(* the same text with everything after the first '#' of each line removed; *)
(* and the result is the one of the same text without its comment lines    *)
(* (the lines whose first non-blank character is '#'), so such a line adds *)
(* nothing and the command lines after it still belong to the header       *)
(* before it.                                                              *)
(***************************************************************************)
C12_CommentsStripped ==
    pc # "start" =>
        /\ \A i \in 1..Len(makefile) :
              /\ ~Occurs("#", makefile[i].name)
              /\ \A k \in 1..Len(makefile[i].dependencies) :
                    ~Occurs("#", NameOf(makefile, makefile[i].dependencies[k]))
              /\ \A k \in 1..Len(makefile[i].commands) :
                    ~Occurs("#", makefile[i].commands[k])
        /\ FromStr(CutAfterHash(makefile_src)) = Returned
        /\ FromStr(WithoutCommentLines(makefile_src)) = Returned

\* a header with a comment at its end, a comment line, and a command with
\* a comment at its end: one target, of one dependency and one command
C12_Witness ==
    /\ pc = "main"
    /\ Lines(makefile_src) =
          << <<"b", ":", " ", "a", " ", "#", "c">>,
             <<"\t", "#", "c">>,
             <<"\t", "x", "#", "y">> >>
    /\ Len(makefile) = 1
    /\ Len(makefile[1].dependencies) = 1
    /\ makefile[1].commands = << <<"x">> >>

\* the positions of the lines ls that stand as headers: the first line, and
\* every line that does not begin with a tab
HeaderPositions(ls) ==
    {i \in 1..Len(ls) : i = 1 \/ ~StartsWith(ls[i], "\t")}

\* the k-th smallest member of the set S of numbers
Kth(S, k) == CHOOSE p \in S : Cardinality({q \in S : q < p}) = k - 1

\* the position after the lines that follow the k-th header up to the next
\* header, or up to the end
BlockEnd(ls, k) ==
    LET S == HeaderPositions(ls)
    IN  IF k < Cardinality(S) THEN Kth(S, k + 1) ELSE Len(ls) + 1

(***************************************************************************)
(* C13: when every line in header position holds a ':', the first loop of  *)
(* the parser yields one target per header line, in the order of the       *)
(* lines: the k-th target has the name written before the ':' of the k-th  *)
(* header line, and its commands are, in order and trimmed, exactly the    *)
(* lines between that header and the next header line (or the end of the   *)
(* text), all of which begin with a tab; so a header directly followed by  *)
(* a header or by the end has no commands, and a command line belongs to   *)
(* the nearest header before it. The Makefile that from_str returns has    *)
(* these targets, names and commands.                                      *)
(***************************************************************************)
C13_CommandsFollowHeader ==
    pc # "start" =>
        LET ls == PreparedLines(makefile_src)
            P == ParseFrom(ls, 1, <<>>)
            S == HeaderPositions(ls)
        IN  /\ P.error = "None" =>
                  /\ Len(P.headers) = Cardinality(S)
                  /\ \A k \in 1..Len(P.headers) :
                        LET p == Kth(S, k)
                            q == BlockEnd(ls, k)
                        IN  /\ P.headers[k].name = SplitOnce(ls[p], ":").before
                            /\ P.headers[k].commands =
                                   [m \in 1..(q - p - 1) |-> Trim(ls[p + m])]
                            /\ \A m \in (p + 1)..(q - 1) : StartsWith(ls[m], "\t")
            /\ pc = "main" =>
                  /\ Len(makefile) = Len(P.headers)
                  /\ \A k \in 1..Len(makefile) :
                        /\ makefile[k].name = P.headers[k].name
                        /\ makefile[k].commands = P.headers[k].commands

\* a header with one command line, then a header at the end of the text:
\* two targets, the first with that command, the second with none
C13_Witness ==
    /\ pc = "main"
    /\ Len(Lines(makefile_src)) = 3
    /\ Len(makefile) = 2
    /\ makefile[1].commands = << <<"y">> >>
    /\ makefile[2].commands = <<>>

\* a line of ls in header position holds no ':'
HeaderWithoutColon(ls) == \E p \in HeaderPositions(ls) : ~Occurs(":", ls[p])

(***************************************************************************)
(* C14 as stated: the parser fails with LineIsNotATarget, and returns no   *)
(* Makefile, whenever a line that is not discarded and stands in header    *)
(* position holds no ':' once its comment is cut; and every other text,    *)
(* the one without any header line too, parses without error.              *)
(***************************************************************************)
C14_LineIsNotATarget ==
    pc # "start" =>
        IF HeaderWithoutColon(PreparedLines(makefile_src))
        THEN result = "LineIsNotATarget" /\ pc = "done" /\ makefile = <<>>
        ELSE pc = "main" /\ result = "Running"

\* the number of dependency paths from header i to header j, over at most
\* n levels: one when i is j, and for each entry of the dependency list of
\* i that names a target, every occurrence counted, the paths from it to j
RECURSIVE NumPaths(_, _, _, _)
RECURSIVE NumPathsOfDeps(_, _, _, _, _)
NumPathsOfDeps(H, i, j, k, n) ==
    IF k > Len(H[i].deps) THEN 0
    ELSE LET d == Earliest(H, H[i].deps[k])
         IN  (IF d = 0 THEN 0 ELSE NumPaths(H, d, j, n))
                 + NumPathsOfDeps(H, i, j, k + 1, n)
NumPaths(H, i, j, n) ==
    IF n = 0 THEN 0
    ELSE (IF i = j THEN 1 ELSE 0) + NumPathsOfDeps(H, i, j, 1, n - 1)

\* how many times command c of header j is among the entries ran
TimesRun(ran, j, c) ==
    Cardinality({k \in 1..Len(ran) : ran[k].target = j /\ ran[k].index = c})

(***************************************************************************)
(* C15: nothing is remembered as built. In a Makefile whose graph is       *)
(* acyclic from the requested target T, each command of each target j has  *)
(* run, since the request, at most as many times as there are dependency   *)
(* paths from T to j, and exactly that many times once the request has     *)
(* returned Ok: a target reached along several paths runs its commands     *)
(* once per path.                                                          *)
(***************************************************************************)
C15_OncePerPath ==
    (Parsed /\ requests # <<>>) =>
        LET H == Headers
            T == Earliest(H, LastRequest.name)
            ran == Ran(LastRequest.executed, Len(executed))
        IN  (T # 0 /\ AcyclicFrom(H, T)) =>
                \A j \in 1..Len(H) : \A c \in 1..Len(H[j].commands) :
                    LET paths == NumPaths(H, T, j, Len(H) + 1)
                    IN  /\ TimesRun(ran, j, c) <= paths
                        /\ (pc = "main" \/ result = "Ok") =>
                               TimesRun(ran, j, c) = paths

\* a: b c / b: d / c: d / d: has been built: the command of d ran twice
C15_Witness ==
    /\ pc = "main"
    /\ Len(requests) = 1
    /\ Len(makefile) = 4
    /\ Len(executed) = 2
    /\ executed[1].target = 4
    /\ executed[2].target = 4

\* the specified executor's step at a dependency: the name, as written in
\* the header of the innermost call's target, is looked up among the
\* targets when it is reached; the first target of that name is built, and
\* a name of no target must be an existing path
ByNameDep(H) ==
    /\ pc = "make"
    /\ Top.dep < Len(H[Top.target].deps)
    /\ LET n == H[Top.target].deps[Top.dep + 1]
           i == Find(makefile, n)
       IN  IF i # 0
           THEN IF Len(stack) < MaxDepth
                THEN /\ stack' = Append(stack, Frame(i))
                     /\ UNCHANGED <<pc, result>>
                ELSE Fail("StackOverflow")
           ELSE IF n \in fs
                THEN /\ stack' = SetTop([Top EXCEPT !.dep = @ + 1])
                     /\ UNCHANGED <<pc, result>>
                ELSE Fail("DependencyDoesNotExist")
    /\ UNCHANGED <<makefile_src, args, fs, makefile, argi, output, stdout, stderr,
                   executed, requests>>

\* the specified executor's steps once every written dependency name of
\* the innermost call's target is satisfied: its commands, then the return
ByNameAfterDeps(H) ==
    /\ pc = "make"
    /\ Top.dep = Len(H[Top.target].deps)
    /\ (MakeCommand \/ MakeCommandIoError \/ MakeReturn)

\* a step of the program with the specified executor in place of
\* Target::make's use of the links
ByNameNext(H) ==
    \/ Parse
    \/ MainArg
    \/ MainDefault
    \/ MainExit
    \/ ByNameDep(H)
    \/ ByNameAfterDeps(H)

(***************************************************************************)
(* C16: the executor that follows the links made at parse time does what   *)
(* the executor that looks every dependency name up when it reaches it     *)
(* does. In every Makefile the parser returns, each link is what the       *)
(* first-match lookup of the written name gives (the first target of that  *)
(* name, wherever in the file it is defined, or else a file of that name), *)
(* and every step of the program is a step of the program with the         *)
(* by-name executor: the same calls, the same commands in the same order,  *)
(* the same outcome.                                                       *)
(***************************************************************************)
C16_LinksAreLookups ==
    /\ [](Parsed =>
            LET H == Headers
            IN  \A i \in 1..Len(makefile) :
                    /\ Len(makefile[i].dependencies) = Len(H[i].deps)
                    /\ \A k \in 1..Len(H[i].deps) :
                          LET d == makefile[i].dependencies[k]
                              j == Find(makefile, H[i].deps[k])
                          IN  IF j # 0
                              THEN d.kind = "Target" /\ d.target = j
                              ELSE d.kind = "File" /\ d.file = H[i].deps[k])
    /\ [][LET H == Headers IN ByNameNext(H)]_vars

\* a target is being built for a target defined before it in the file
C16_Witness ==
    /\ pc = "make"
    /\ Len(stack) = 2
    /\ stack[2].target > stack[1].target
    /\ executed # <<>>

\* header j lies on a cycle of the dependency graph
OnCycle(H, j) == j \in Descendants(H, j)

\* the last request is for a target whose dependencies, direct or not,
\* hold a cycle
CyclicRequest(H) ==
    /\ requests # <<>>
    /\ Earliest(H, LastRequest.name) # 0
    /\ ~AcyclicFrom(H, Earliest(H, LastRequest.name))

\* no command of a target on a cycle has run
NoCommandOnCycle(H) ==
    \A k \in 1..Len(executed) : ~OnCycle(H, executed[k].target)

(***************************************************************************)
(* C17 as stated: the build of a target whose dependencies, direct or not, *)
(* hold a cycle never returns, neither with success nor with an error (the *)
(* recursion goes on until the process is aborted), and runs no command of *)
(* a target on a cycle.                                                    *)
(***************************************************************************)
C17_CycleNeverReturns ==
    Parsed =>
        LET H == Headers
        IN  CyclicRequest(H) =>
                /\ pc # "main"
                /\ result \in {"Running", "StackOverflow"}
                /\ NoCommandOnCycle(H)

(***************************************************************************)
(* C17, amended: the build of a target whose dependencies, direct or not,  *)
(* hold a cycle never returns success and runs no command of a target on a *)
(* cycle. It ends with the first error met before the recursion closes the *)
(* cycle again (a missing file, or a failing command of a target that is   *)
(* on no cycle), or else recurses until the process is aborted.            *)
(***************************************************************************)
C17_CycleNeverSucceeds ==
    Parsed =>
        LET H == Headers
        IN  /\ NoCommandOnCycle(H)
            /\ CyclicRequest(H) =>
                  /\ pc # "main"
                  /\ result \in {"Running", "StackOverflow", "DependencyDoesNotExist",
                                 "BuildError", "IoError"}
                  /\ result = "BuildError" =>
                        ~OnCycle(H, executed[Len(executed)].target)
            /\ result = "StackOverflow" => CyclicRequest(H)

\* a: b a / b: the command of b has run at every level of the recursion,
\* none of a has, and the process has been aborted
C17_Witness ==
    /\ result = "StackOverflow"
    /\ Len(makefile) = 2
    /\ Len(makefile[1].dependencies) = 2
    /\ Len(requests) = 1
    /\ Len(executed) > 1
    /\ \A k \in 1..Len(executed) : executed[k].target = 2

\* the command lines of the commands run, in order
CommandsRun == [k \in 1..Len(executed) |-> executed[k].command]

\* what the commands run wrote to their error streams, in order
RECURSIVE ErrorsFrom(_)
ErrorsFrom(k) ==
    IF k > Len(executed) THEN <<>> ELSE executed[k].stderr \o ErrorsFrom(k + 1)

(***************************************************************************)
(* C18: every command is printed to standard output as it is started. At   *)
(* every moment the lines on standard output are the command lines of the  *)
(* commands started so far, in order, each the text of its target's        *)
(* command, the failing command included; only when the shell of a command *)
(* could not be started (IoError) is the last line the line of that        *)
(* command, which never ran. The error stream holds what the commands run  *)
(* wrote to theirs, and when the run has ended with BuildError the output  *)
(* of the failing command is on it.                                        *)
(***************************************************************************)
C18_EchoBeforeRun ==
    /\ IsPrefix(CommandsRun, stdout)
    /\ Len(stdout) = Len(executed) + (IF result = "IoError" THEN 1 ELSE 0)
    /\ \A k \in 1..Len(executed) :
          executed[k].command = makefile[executed[k].target].commands[executed[k].index]
    /\ stderr = ErrorsFrom(1)
    /\ result = "BuildError" =>
          /\ executed # <<>>
          /\ executed[Len(executed)].stderr # <<>>
          /\ stderr = executed[Len(executed)].stderr
          /\ stdout[Len(stdout)] = executed[Len(executed)].command

\* the second command run wrote to its error stream: both lines are on
\* standard output and its output is on the error stream
C18_Witness ==
    /\ result = "BuildError"
    /\ Len(executed) = 2
    /\ Len(stdout) = 2
    /\ stderr = <<"e">>

\* no header of the Makefile lies on a cycle
AcyclicGraph == LET H == Headers IN \A j \in 1..Len(H) : ~OnCycle(H, j)

\* a build is under way for a request whose target reaches no cycle
AcyclicBuild ==
    /\ pc = "make"
    /\ LET H == Headers
           T == Earliest(H, LastRequest.name)
       IN  T # 0 /\ AcyclicFrom(H, T)

(***************************************************************************)
(* C19: when the graph of the Makefile is acyclic the run ends, and every  *)
(* build of a requested name whose target reaches no cycle returns. Such a *)
(* build never exhausts the stack, runs no more commands than the          *)
(* depth-first order of its target holds, and the run ends with one        *)
(* result: success or one error.                                           *)
(***************************************************************************)
C19_AcyclicTerminates ==
    /\ (pc = "main" /\ AcyclicGraph) ~> (pc = "done")
    /\ AcyclicBuild ~> (pc # "make")
    /\ [](Parsed =>
            LET H == Headers
            IN  /\ (requests # <<>> /\ Earliest(H, LastRequest.name) # 0
                        /\ AcyclicFrom(H, Earliest(H, LastRequest.name))) =>
                       /\ result # "StackOverflow"
                       /\ Len(executed) - LastRequest.executed
                              <= Len(DepthFirst(H, Earliest(H, LastRequest.name)))
                /\ pc = "done" =>
                       result \in {"Ok", "NoSuchTarget", "NoTargets",
                                   "DependencyDoesNotExist", "BuildError",
                                   "IoError", "StackOverflow"})
    /\ [][pc = "done" => result' = result]_vars

\* the build of a: b c / b: d / c: d / d:, an acyclic graph reached along
\* two paths, has returned and the run has ended with success
C19_Witness ==
    /\ pc = "done"
    /\ result = "Ok"
    /\ Len(makefile) = 4
    /\ Len(executed) = 2

====
